---- MODULE Spec2Model ----
(***************************************************************************)
(* State-machine model of the recipe generator front end:                  *)
(*   - the Recipe Service Client (api.ts): fetchIngredients, addIngredient, *)
(*     generateRecipe, fetchRecipeHistory;                                  *)
(*   - the RecipeGenerator component: its props, its two state hooks, the   *)
(*     click handler handleGenerateRecipe and the button that invokes it.   *)
(***************************************************************************)
EXTENDS Integers, Sequences, FiniteSets, TLC

VARIABLES
    selectedIngredientIds, \* prop: the selected ingredient ids, in order
    ingredients,           \* prop: the ingredient catalog
    isGenerating,          \* useState(false)
    error,                 \* useState<string | null>(null)
    pending,               \* generateRecipe requests awaiting their response
    step,                  \* what the last step was
    sent,                  \* generateRecipe calls made by the last step
    relayed,               \* onRecipeGenerated calls made by the last step
    warned,                \* whether the last step called console.warn
    settled,               \* how the promise awaited by the last step settled
    call                   \* one call of a service client function

compVars == <<selectedIngredientIds, ingredients, isGenerating, error, pending,
              step, sent, relayed, warned, settled>>
vars == <<selectedIngredientIds, ingredients, isGenerating, error, pending,
          step, sent, relayed, warned, settled, call>>

----------------------------------------------------------------------------
(* Bounds of the model *)

MaxSelected == 2
MaxCatalog == 2
MaxPending == 2

SeqsUpTo(S, n) == UNION {[1..m -> S] : m \in 0..n}

RemoveAt(s, i) == SubSeq(s, 1, i - 1) \o SubSeq(s, i + 1, Len(s))

----------------------------------------------------------------------------
(* JavaScript values carried by HTTP responses *)

\* null of the error state and of the id -> name mapping
Null == "null"

Scalar(k) == [kind |-> k, ref |-> "", item |-> "absent", recipe |-> "absent"]

\* an Ingredient or Recipe document: an object with neither an item nor a
\* recipe property
Entity(r) == [kind |-> "object", ref |-> r, item |-> "absent", recipe |-> "absent"]

\* { message, item?, recipe? }: i and r say what the two properties hold
Envelope(i, r) == [kind |-> "object", ref |-> "envelope", item |-> i, recipe |-> r]

Undefined == Scalar("undefined")

FieldCodes == {"absent", "null", "empty", "text", "doc1", "doc2"}

\* the value a property holds, from its code
FieldValue(c) ==
    CASE c = "absent" -> Undefined
      [] c = "null" -> Scalar("null")
      [] c = "empty" -> Scalar("emptyString")
      [] c = "text" -> Scalar("string")
      [] OTHER -> Entity(c)

\* data.item, data.recipe: a property read of a non-nullish value
Get(data, f) ==
    IF data.kind = "object" THEN FieldValue(data[f]) ELSE Undefined

\* !v is false
Truthy(v) == v.kind \notin {"undefined", "null", "emptyString"}

Bodies ==
    {Undefined, Scalar("null"), Scalar("emptyString"), Scalar("string"),
     Scalar("array")}
    \cup {Envelope(i, r) : i \in FieldCodes, r \in FieldCodes}

NoError == [name |-> "", message |-> ""]

TransportErrors ==
    {[name |-> "AxiosError", message |-> "Network Error"],
     [name |-> "AxiosError", message |-> "Request failed with status code 500"],
     [name |-> "AxiosError", message |-> ""]}

Responses ==
    {[status |-> "ok", data |-> d, error |-> NoError] : d \in Bodies}
    \cup {[status |-> "error", data |-> Undefined, error |-> e] : e \in TransportErrors}

Return(v) == [kind |-> "returned", value |-> v, error |-> NoError]
Throw(e) == [kind |-> "thrown", value |-> Undefined, error |-> e]
NoResult == [kind |-> "none", value |-> Undefined, error |-> NoError]

----------------------------------------------------------------------------
(* Recipe Service Client: each function as the result of its promise, given *)
(* the outcome of its one api.get / api.post                                *)

fetchIngredients(response) ==
    IF response.status = "error"
    THEN Throw(response.error)
    ELSE Return(response.data)

addIngredient(response) ==
    IF response.status = "error"
    THEN Throw(response.error)
    ELSE IF ~Truthy(response.data) \/ ~Truthy(Get(response.data, "item"))
         THEN Throw([name |-> "Error",
                     message |-> "Invalid response structure from addIngredient API"])
         ELSE Return(Get(response.data, "item"))

\* generateRecipe returning response.data, the envelope, unchecked
generateRecipeEnvelope(response) ==
    IF response.status = "error"
    THEN Throw(response.error)
    ELSE Return(response.data)

generateRecipe(response) ==
    IF response.status = "error"
    THEN Throw(response.error)
    ELSE IF ~Truthy(response.data) \/ ~Truthy(Get(response.data, "recipe"))
         THEN Throw([name |-> "Error",
                     message |-> "Invalid response structure from generateRecipe API"])
         ELSE Return(Get(response.data, "recipe"))

\* fetchRecipeHistory checking and unwrapping the body as generateRecipe does
fetchRecipeHistoryUnwrapped(response) ==
    IF response.status = "error"
    THEN Throw(response.error)
    ELSE IF ~Truthy(response.data) \/ ~Truthy(Get(response.data, "recipe"))
         THEN Throw([name |-> "Error",
                     message |-> "Invalid response structure from fetchRecipeHistory API"])
         ELSE Return(Get(response.data, "recipe"))

fetchRecipeHistory(response) ==
    IF response.status = "error"
    THEN Throw(response.error)
    ELSE Return(response.data)

----------------------------------------------------------------------------
(* One call of a client function: the request goes out, the caller is       *)
(* suspended on the await, the response or the transport error arrives      *)

Ids == {"a", "b", "x"}
CatalogIds == {"a", "b"}
IngredientNames == {"Egg", "Milk"}

ClientOps == {"fetchIngredients", "addIngredient", "generateRecipe", "fetchRecipeHistory"}

\* the arguments a client function is called with
ClientArgs(op) ==
    CASE op = "addIngredient" -> {<<n>> : n \in IngredientNames}
      [] op = "generateRecipe" -> SeqsUpTo(IngredientNames, MaxSelected)
      [] OTHER -> {<<>>}

\* the api.get / api.post a client function makes
Request(op, arg) ==
    CASE op = "fetchIngredients" -> [method |-> "GET", url |-> "/items", body |-> <<>>]
      [] op = "addIngredient" -> [method |-> "POST", url |-> "/items/add", body |-> arg]
      [] op = "generateRecipe" ->
            [method |-> "POST", url |-> "/recipes/basket/generate-recipe", body |-> arg]
      [] OTHER -> [method |-> "GET", url |-> "/recipes/history", body |-> <<>>]

ClientResult(op, response) ==
    CASE op = "fetchIngredients" -> fetchIngredients(response)
      [] op = "addIngredient" -> addIngredient(response)
      [] op = "generateRecipe" -> generateRecipe(response)
      [] OTHER -> fetchRecipeHistory(response)

NoResponse == [status |-> "none", data |-> Undefined, error |-> NoError]

IdleCall ==
    [op |-> "none", phase |-> "idle", requests |-> 0,
     request |-> [method |-> "", url |-> "", body |-> <<>>],
     response |-> NoResponse, result |-> NoResult]

ApiInvoke ==
    /\ call.phase # "awaiting"
    /\ \E op \in ClientOps : \E arg \in ClientArgs(op) :
          call' = [op |-> op, phase |-> "awaiting", requests |-> 1,
                   request |-> Request(op, arg),
                   response |-> NoResponse, result |-> NoResult]
    /\ UNCHANGED compVars

ApiSettle ==
    /\ call.phase = "awaiting"
    /\ \E response \in Responses :
          call' = [call EXCEPT !.phase = "settled",
                               !.response = response,
                               !.result = ClientResult(call.op, response)]
    /\ UNCHANGED compVars

----------------------------------------------------------------------------
(* RecipeGenerator: props *)

\* an Ingredient, as far as the component reads it
Ingredient == [_id : CatalogIds, name : IngredientNames]

Selections == SeqsUpTo(Ids, MaxSelected)
Catalogs == SeqsUpTo(Ingredient, MaxCatalog)

\* ingredients.find(i => i._id === id): the index of the first match, 0 for
\* undefined
find(catalog, id) ==
    IF \E i \in 1..Len(catalog) : catalog[i]._id = id
    THEN CHOOSE i \in 1..Len(catalog) :
            /\ catalog[i]._id = id
            /\ \A j \in 1..(i - 1) : catalog[j]._id # id
    ELSE 0

\* the names of the catalog entries that are selected, in catalog order
namesInCatalogOrder(ids, catalog) ==
    LET picked == SelectSeq(catalog,
                            LAMBDA i : \E k \in 1..Len(ids) : ids[k] = i._id)
    IN [k \in 1..Len(picked) |-> picked[k].name]

\* the mapping without its filter, with the placeholder the basket shows for
\* an id that is not in the catalog
namesWithPlaceholder(ids, catalog) ==
    [k \in 1..Len(ids) |->
        IF find(catalog, ids[k]) # 0
        THEN catalog[find(catalog, ids[k])].name
        ELSE "Loading..."]

\* selectedIngredientIds.map(id => ingredient ? ingredient.name : null)
\*                      .filter(name => name !== null)
selectedIngredientNames(ids, catalog) ==
    LET mapped == [k \in 1..Len(ids) |->
                      IF find(catalog, ids[k]) # 0
                      THEN catalog[find(catalog, ids[k])].name
                      ELSE Null]
    IN SelectSeq(mapped, LAMBDA name : name # Null)

----------------------------------------------------------------------------
(* RecipeGenerator: handleGenerateRecipe.  Each operator is what one path   *)
(* of the handler does to the component: the two state hooks, the           *)
(* generateRecipe calls, the onRecipeGenerated calls and console.warn       *)

\* startRequest without its setError(null)
startRequestKeepsError(names) ==
    [error |-> error, isGenerating |-> TRUE, sent |-> <<names>>,
     warned |-> (Len(names) # Len(selectedIngredientIds))]

\* setIsGenerating(true), setError(null), the warning on a partial match,
\* then generateRecipe(selectedIngredientNames) up to its await
startRequest(names) ==
    [error |-> Null, isGenerating |-> TRUE, sent |-> <<names>>,
     warned |-> (Len(names) # Len(selectedIngredientIds))]

\* the empty-selection check placed after setIsGenerating(true)
emptySelectionAfterFlag ==
    [error |-> "Please select ingredients first.", isGenerating |-> TRUE,
     sent |-> <<>>, warned |-> FALSE]

\* selectedIngredientIds.length === 0: setError and return
emptySelection ==
    [error |-> "Please select ingredients first.", isGenerating |-> isGenerating,
     sent |-> <<>>, warned |-> FALSE]

\* no check of the resolved names: the request goes out with none
noNamesProceeds == startRequest(<<>>)

\* no name resolved: setError, setIsGenerating(false) and return
noNames ==
    [error |-> "Could not find names for selected ingredients.",
     isGenerating |-> FALSE, sent |-> <<>>, warned |-> FALSE]

\* the handler up to its first await
handlerStart ==
    IF Len(selectedIngredientIds) = 0
    THEN emptySelection
    ELSE LET names == selectedIngredientNames(selectedIngredientIds, ingredients)
         IN IF Len(names) = 0 /\ Len(selectedIngredientIds) > 0
            THEN noNames
            ELSE startRequest(names)

\* try: onRecipeGenerated(recipe); finally: setIsGenerating(false)
onSuccess(recipe) ==
    [error |-> error, isGenerating |-> FALSE, relayed |-> <<recipe>>]

\* the handler without its finally: the flag is cleared after the try only
onFailureKeepsFlag(err) ==
    [error |-> IF err.message # "" THEN err.message
               ELSE "Failed to generate recipe. Please try again.",
     isGenerating |-> isGenerating, relayed |-> <<>>]

\* catch: setError(err.message || '...'); finally: setIsGenerating(false)
onFailure(err) ==
    [error |-> IF err.message # "" THEN err.message
               ELSE "Failed to generate recipe. Please try again.",
     isGenerating |-> FALSE, relayed |-> <<>>]

\* the handler from its await on
handlerResume(result) ==
    IF result.kind = "returned" THEN onSuccess(result.value) ELSE onFailure(result.error)

handleGenerateRecipe ==
    /\ Len(pending) + Len(handlerStart.sent) <= MaxPending
    /\ error' = handlerStart.error
    /\ isGenerating' = handlerStart.isGenerating
    /\ sent' = handlerStart.sent
    /\ warned' = handlerStart.warned
    /\ pending' = pending \o handlerStart.sent
    /\ step' = "invoke"
    /\ relayed' = <<>>
    /\ settled' = NoResult
    /\ UNCHANGED <<selectedIngredientIds, ingredients, call>>

\* the response of one pending generateRecipe request arrives and the
\* suspended handler runs to its end
Settle ==
    /\ \E i \in 1..Len(pending) : \E response \in Responses :
          LET result == generateRecipe(response)
              after == handlerResume(result)
          IN /\ pending' = RemoveAt(pending, i)
             /\ settled' = result
             /\ error' = after.error
             /\ isGenerating' = after.isGenerating
             /\ relayed' = after.relayed
    /\ step' = "settle"
    /\ sent' = <<>>
    /\ warned' = FALSE
    /\ UNCHANGED <<selectedIngredientIds, ingredients, call>>

----------------------------------------------------------------------------
(* RecipeGenerator: the button and the parent *)

\* the button disabled on an empty selection only
disabledWhenEmpty == Len(selectedIngredientIds) = 0

\* the button never disabled
disabledNever == FALSE

\* <button disabled={isGenerating || selectedIngredientIds.length === 0}>
disabled == isGenerating \/ Len(selectedIngredientIds) = 0

\* a click on the button: a disabled button dispatches no click event
Click ==
    IF disabled
    THEN /\ step' = "ignored"
         /\ sent' = <<>>
         /\ relayed' = <<>>
         /\ warned' = FALSE
         /\ settled' = NoResult
         /\ UNCHANGED <<selectedIngredientIds, ingredients, isGenerating, error,
                        pending, call>>
    ELSE handleGenerateRecipe

\* a fresh call of the handler itself, whatever the selection
Invoke ==
    /\ ~isGenerating
    /\ handleGenerateRecipe

\* the parent renders the component with new props: one id selected or
\* deselected, one catalog entry added or removed
Rerender ==
    /\ \/ \E id \in Ids :
             /\ Len(selectedIngredientIds) < MaxSelected
             /\ selectedIngredientIds' = Append(selectedIngredientIds, id)
             /\ UNCHANGED ingredients
       \/ \E k \in 1..Len(selectedIngredientIds) :
             /\ selectedIngredientIds' = RemoveAt(selectedIngredientIds, k)
             /\ UNCHANGED ingredients
       \/ \E i \in Ingredient :
             /\ Len(ingredients) < MaxCatalog
             /\ ingredients' = Append(ingredients, i)
             /\ UNCHANGED selectedIngredientIds
       \/ \E k \in 1..Len(ingredients) :
             /\ ingredients' = RemoveAt(ingredients, k)
             /\ UNCHANGED selectedIngredientIds
    /\ step' = "props"
    /\ sent' = <<>>
    /\ relayed' = <<>>
    /\ warned' = FALSE
    /\ settled' = NoResult
    /\ UNCHANGED <<isGenerating, error, pending, call>>

----------------------------------------------------------------------------
(* Specifications *)

Mounted ==
    /\ selectedIngredientIds \in Selections
    /\ ingredients \in Catalogs
    /\ isGenerating = FALSE
    /\ error = Null
    /\ pending = <<>>
    /\ step = "mount"
    /\ sent = <<>>
    /\ relayed = <<>>
    /\ warned = FALSE
    /\ settled = NoResult

Init ==
    /\ Mounted
    /\ call = IdleCall

\* the component as rendered: the handler runs on a click of the button
Next == Rerender \/ Click \/ Settle

Spec == Init /\ [][Next]_vars

\* the handler called as a function, for every selection
NextHandler == Rerender \/ Invoke \/ Settle

SpecHandler == Init /\ [][NextHandler]_vars

\* the service client on its own
InitApi ==
    /\ selectedIngredientIds = <<>>
    /\ ingredients = <<>>
    /\ isGenerating = FALSE
    /\ error = Null
    /\ pending = <<>>
    /\ step = "mount"
    /\ sent = <<>>
    /\ relayed = <<>>
    /\ warned = FALSE
    /\ settled = NoResult
    /\ call = IdleCall

NextApi == ApiInvoke \/ ApiSettle

SpecApi == InitApi /\ [][NextApi]_vars

----------------------------------------------------------------------------
(* Properties *)

\* id is the _id of some catalog entry
InCatalog(id) == \E i \in 1..Len(ingredients) : ingredients[i]._id = id

\* name is the name of the first catalog entry whose _id is id
NameOf(id, name) ==
    \E i \in 1..Len(ingredients) :
        /\ ingredients[i]._id = id
        /\ ingredients[i].name = name
        /\ \A j \in 1..(i - 1) : ingredients[j]._id # id

\* the handler has just run on the props of this state
Invoked == step = "invoke"

\* C1: at most one generateRecipe request is outstanding at any time, and a
\* click made while one is pending starts no request: it is ignored.
C1_SingleInFlight ==
    /\ Len(pending) <= 1
    /\ (step = "ignored" => sent = <<>>)

C1_Witness == step = "ignored" /\ Len(pending) = 1

\* C2: isGenerating is true from the start of a call with a non-empty
\* selection until the call settles, and false once it has settled: after a
\* success, after a failure, and after the return taken when no name resolved.
C2_FlagSpansCall ==
    /\ (Invoked /\ sent # <<>> => isGenerating)
    /\ (pending # <<>> => isGenerating)
    /\ (step = "settle" /\ settled.kind = "returned" => ~isGenerating)
    /\ (step = "settle" /\ settled.kind = "thrown" => ~isGenerating)
    /\ (Invoked /\ Len(selectedIngredientIds) > 0 /\ sent = <<>> => ~isGenerating)

C2_Witness == step = "settle" /\ settled.kind = "thrown" /\ ~isGenerating

\* C3: called with an empty selection, the handler sets a non-null error,
\* calls neither generateRecipe nor onRecipeGenerated, and leaves
\* isGenerating false.
C3_EmptySelection ==
    Invoked /\ Len(selectedIngredientIds) = 0 =>
        /\ error # Null
        /\ sent = <<>>
        /\ pending = <<>>
        /\ relayed = <<>>
        /\ isGenerating = FALSE

C3_Witness ==
    /\ Invoked
    /\ Len(selectedIngredientIds) = 0
    /\ error = "Please select ingredients first."

\* C4: with a non-empty selection none of whose ids is in the catalog, the
\* handler sets a non-null error and calls neither generateRecipe nor
\* onRecipeGenerated.
C4_NoMatch ==
    (/\ Invoked
     /\ Len(selectedIngredientIds) > 0
     /\ \A k \in 1..Len(selectedIngredientIds) : ~InCatalog(selectedIngredientIds[k]))
    =>
        /\ error # Null
        /\ sent = <<>>
        /\ pending = <<>>
        /\ relayed = <<>>

C4_Witness ==
    /\ Invoked
    /\ Len(selectedIngredientIds) > 0
    /\ Len(ingredients) > 0
    /\ \A k \in 1..Len(selectedIngredientIds) : ~InCatalog(selectedIngredientIds[k])
    /\ error = "Could not find names for selected ingredients."

\* C5: with a non-empty selection whose ids are all in the catalog, the
\* handler calls generateRecipe exactly once, with as many names as there are
\* selected ids, the k-th being the name of the catalog entry of the k-th id.
C5_FullMatch ==
    (/\ Invoked
     /\ Len(selectedIngredientIds) > 0
     /\ \A k \in 1..Len(selectedIngredientIds) : InCatalog(selectedIngredientIds[k]))
    =>
        /\ Len(sent) = 1
        /\ Len(sent[1]) = Len(selectedIngredientIds)
        /\ \A k \in 1..Len(selectedIngredientIds) :
              NameOf(selectedIngredientIds[k], sent[1][k])

C5_Witness ==
    /\ Invoked
    /\ Len(selectedIngredientIds) = 2
    /\ \A k \in 1..Len(selectedIngredientIds) : InCatalog(selectedIngredientIds[k])
    /\ Len(sent) = 1
    /\ Len(sent[1]) = 2
    /\ sent[1][1] # sent[1][2]

HoldsField(data, f) ==
    data.kind = "object" /\ data[f] \in {"text", "doc1", "doc2"}

\* C7: on a successful HTTP response, addIngredient and generateRecipe throw
\* the malformed-response error when the body is missing or its item / recipe
\* property is missing or falsy, and otherwise return that property, not the
\* envelope.
C7_Unwrap ==
    (/\ call.phase = "settled"
     /\ call.op \in {"addIngredient", "generateRecipe"}
     /\ call.response.status = "ok")
    =>
        LET f == IF call.op = "addIngredient" THEN "item" ELSE "recipe"
            data == call.response.data
        IN IF HoldsField(data, f)
           THEN /\ call.result.kind = "returned"
                /\ call.result.value = FieldValue(data[f])
                /\ call.result.value # data
           ELSE /\ call.result.kind = "thrown"
                /\ call.result.error.name = "Error"
                /\ call.result.error.message =
                      IF call.op = "addIngredient"
                      THEN "Invalid response structure from addIngredient API"
                      ELSE "Invalid response structure from generateRecipe API"

C7_Witness ==
    /\ call.phase = "settled"
    /\ call.op = "generateRecipe"
    /\ call.response.status = "ok"
    /\ call.response.data.kind = "object"
    /\ call.response.data.item = "doc1"
    /\ call.response.data.recipe = "absent"
    /\ call.result.kind = "thrown"

C9_PassThrough ==
    call.phase = "settled" =>
        /\ (call.op \in {"fetchIngredients", "fetchRecipeHistory"}
            /\ call.response.status = "ok"
            => call.result = Return(call.response.data))
        /\ (call.response.status = "error"
            => call.result = Throw(call.response.error))
        /\ call.requests = 1

C9_Witness ==
    /\ call.phase = "settled"
    /\ call.op = "fetchRecipeHistory"
    /\ call.response.status = "ok"
    /\ call.response.data = Envelope("doc1", "doc2")
    /\ call.result.value = Envelope("doc1", "doc2")

\* C10: the flag is true whenever a generateRecipe request is outstanding and
\* false whenever none is.
C10_FlagIffOutstanding ==
    /\ (pending # <<>> => isGenerating)
    /\ (pending = <<>> => ~isGenerating)

C10_Witness == step = "props" /\ Len(pending) = 1 /\ isGenerating

====
